---------------------------- MODULE Spec2Model ----------------------------
(***************************************************************************)
(* A model of bsc-mev-sentry: the admission limiter (gin middleware), the  *)
(* validator's background refresh of its cached fields, and the request    *)
(* path (SendBid, GeneratePayBidTx, Params, Running) that reads them.      *)
(*                                                                         *)
(* Two independent state machines share the module:                        *)
(*   LimiterSpec / LimiterLiveSpec  the middleware of                      *)
(*                                  gin/concurrency_limiter.go             *)
(*   Spec                           node/validator.go and the service's    *)
(*                                  handlers                               *)
(* Each specification leaves the other machine's variables untouched.      *)
(***************************************************************************)
EXTENDS Integers, Sequences, FiniteSets, TLC

(***************************************************************************)
(* Bounds of the model.                                                    *)
(***************************************************************************)
\* number of concurrent HTTP callers of the middleware
NumCallers == 3
\* largest configured RPCConcurrency explored (the smallest is -1)
MaxCapacity == 2

Callers == 1..NumCallers
Capacities == (-1)..MaxCapacity

(***************************************************************************)
(* State of the admission limiter.                                         *)
(*   max        the configured capacity handed to ConcurrencyLimiter       *)
(*   lc         number of tokens in the buffered channel lc                *)
(*   sendq      callers parked on the send "lc <- struct{}{}", in arrival  *)
(*              order (a Go channel queues its blocked senders)            *)
(*   cpc        where each caller is in the handler                        *)
(*   panicking  whether the caller's c.Next() ended in a panic             *)
(*   waited     history: the caller's send was parked before it completed  *)
(***************************************************************************)
VARIABLES max, lc, sendq, cpc, panicking, waited

(***************************************************************************)
(* validator fields: the cache the refresh job writes                      *)
(*   chainID, mevParams, payAccountBalance   atomic.Pointer, Nil at first  *)
(*   mevRunning                              uint32 flag, 0 at first       *)
(*   payAccountNonce                         uint64, 0 at first            *)
(* refresh() frame:                                                        *)
(*   rpc      the fetch refresh() is about to make ("idle": between runs)  *)
(*   err      the err returned by the latest fetch of this run             *)
(*   fetched  the value returned by the latest fetch of this run           *)
(* history variables (not in the code):                                    *)
(*   failed        some fetch of the current run has failed                *)
(*   cycle         tag of the current refresh run: runs are tagged 1, 2,   *)
(*                 1, 2, ...; 0 before the first run                       *)
(*   balanceCycle  tag of the run that stored payAccountBalance, 0 if none *)
(*   nonceCycle    tag of the run that stored payAccountNonce, 0 if none   *)
(***************************************************************************)
VARIABLES chainID, mevRunning, mevParams, payAccountBalance, payAccountNonce,
          rpc, err, fetched, failed, cycle, balanceCycle, nonceCycle

(***************************************************************************)
(* One inbound call at a time is followed through its handler.             *)
(*   call.pc      where the handler is ("idle": no call in progress)       *)
(*   method, fee, sig   the call and, for mev_sendBid, its bid             *)
(*   hostname     the local hostname: the Host with its port cut off       *)
(*   builder      the address recovered from the signature                 *)
(*   tx, payBidTx the payment transaction and its encoding                 *)
(*   sent         the bid the upstream validator received, if any          *)
(*   ret, err     the handler's results                                    *)
(*   panicked     the handler crashed                                      *)
(*   balance, nonce   locals of MevSentry.GeneratePayBidTx (the service   *)
(*                    of service/sentry.go, which has its own generator)   *)
(* history fields: upstream (the handler called the upstream validator),   *)
(* chainRead (the handler asked the chain for the balance and the nonce),  *)
(* upErr (the error client.SendBid returned to validator.SendBid),         *)
(* issueBuilder (the builder address inside the issue of mev_reportIssue), *)
(* peer (the configured address of the builder whose ReportIssue was       *)
(* called, Nil when none was),                                             *)
(* generated (GeneratePayBidTx was entered), signed                        *)
(* (SignTx was called), genErr (the error GeneratePayBidTx returned),      *)
(* balanceCycleRead / nonceCycleRead (the tags of the runs that stored the *)
(* balance and the nonce the generator read, kept until SignTx).           *)
(***************************************************************************)
VARIABLE call

(***************************************************************************)
(* The routing step the validator-bound handlers share, followed on its    *)
(* own for any routing table:                                              *)
(*   route.table      keys of MevSentry.validators                         *)
(*   route.method     the method called                                    *)
(*   route.name, route.port   what the caller's Host was made of (history) *)
(*   route.host       the Host of the call                                 *)
(*   route.hostname   the local hostname after the cut                     *)
(*   route.validator  the validator the handler goes on with: a pointer to *)
(*                    the key it is stored under, Nil when ok is false     *)
(***************************************************************************)
VARIABLE route

(***************************************************************************)
(* The deadline of a gateway call, followed on its own:                    *)
(*   upcall.timeout    MevSentry.timeout (RPCTimeout), in seconds          *)
(*   upcall.pc         "idle", "upstream" (ctx is set up, the upstream     *)
(*                     call is next), "done"                               *)
(*   upcall.deadline   the deadline of ctx, counted from the start of the  *)
(*                     call; Nil when ctx has none                         *)
(*   upcall.took       history: the time the upstream needed to answer     *)
(*   upcall.cancelled  the upstream call was given up before the answer    *)
(*   upcall.err        the error the upstream call returned                *)
(***************************************************************************)
VARIABLE upcall

(***************************************************************************)
(* The meters of the gateway (package metrics):                            *)
(*   ApiErrorCounter   counter vector: per (method, code) label pair, how  *)
(*                     often it was incremented                            *)
(*   ApiLatencyHist    histogram vector: per method, how many latencies    *)
(*                     were observed                                       *)
(***************************************************************************)
VARIABLES ApiErrorCounter, ApiLatencyHist

(***************************************************************************)
(* The start of the process (main), followed on its own:                   *)
(*   boot.cfgs        cfg.Validators, the configured validators in order   *)
(*   boot.pc          "validators" (the loop over cfg.Validators),         *)
(*                    "serving" (the rpc server runs), "crashed" (main     *)
(*                    ended in a panic)                                    *)
(*   boot.i           the configuration the loop is at                     *)
(*   boot.validators  keys of the map validators: the positions of the     *)
(*                    configurations whose validator was stored            *)
(***************************************************************************)
VARIABLE boot

(***************************************************************************)
(* Two sendBid calls for the same validator that run at the same time      *)
(* (the rpc server runs each request in its own goroutine), followed on    *)
(* their own: calls[g] is the call record of the g-th of them, with the    *)
(* fields of call.                                                         *)
(***************************************************************************)
VARIABLE calls

(***************************************************************************)
(* The runs of refresh() the scheduler starts, followed side by side: the  *)
(* scheduler starts each run in a goroutine of its own when the interval   *)
(* has passed, whether or not the run before has returned.                 *)
(*   jobs[j].pc    where the j-th run is: "waiting" (not started), the     *)
(*                 fetch it is about to make, "idle" (returned)            *)
(*   jobs[j].err   the err returned by its latest fetch                    *)
(* Here balanceCycle and nonceCycle hold the number of the run that stored *)
(* the balance and the nonce.                                              *)
(***************************************************************************)
VARIABLE jobs

overlapVars == <<jobs>>
pairVars == <<calls>>
startupVars == <<boot>>
metricVars == <<ApiErrorCounter, ApiLatencyHist>>
dispatchVars == <<route, upcall>>
limiterVars == <<max, lc, sendq, cpc, panicking, waited>>
cacheVars == <<chainID, mevRunning, mevParams, payAccountBalance, payAccountNonce>>
refreshVars == <<rpc, err, fetched, failed, cycle, balanceCycle, nonceCycle>>
gatewayVars == <<cacheVars, refreshVars, call, dispatchVars, metricVars, startupVars, pairVars,
                 overlapVars>>
vars == <<limiterVars, cacheVars, refreshVars, call, dispatchVars, metricVars, startupVars, pairVars,
          overlapVars>>


\* ConcurrencyLimiter(max): max <= 0 returns the handler that only calls c.Next()
Limited_FromZero == max >= 0
Limited == max > 0

\* a send on a buffered channel proceeds at once iff the buffer is not full
ChanHasRoom_Always(n, cap) == TRUE
ChanHasRoom(n, cap) == n < cap

\* the calls that are inside c.Next()
Executing == {c \in Callers : cpc[c] = "next"}
\* the calls between a completed send and the deferred receive
Admitted == {c \in Callers : cpc[c] \in {"next", "deferred"}}

LimiterInit ==
    /\ max \in Capacities
    /\ lc = 0
    /\ sendq = <<>>
    /\ cpc = [c \in Callers |-> "idle"]
    /\ panicking = [c \in Callers |-> FALSE]
    /\ waited = [c \in Callers |-> FALSE]

\* A request reaches the middleware: pass-through when max <= 0, otherwise
\* the send "lc <- struct{}{}", which either completes or parks the caller.
Arrive(c) ==
    /\ cpc[c] = "idle"
    /\ \/ /\ ~Limited
          /\ cpc' = [cpc EXCEPT ![c] = "next"]
          /\ UNCHANGED <<lc, sendq>>
       \/ /\ Limited
          /\ ChanHasRoom(lc, max)
          /\ lc' = lc + 1
          /\ cpc' = [cpc EXCEPT ![c] = "next"]
          /\ UNCHANGED sendq
       \/ /\ Limited
          /\ ~ChanHasRoom(lc, max)
          /\ sendq' = Append(sendq, c)
          /\ cpc' = [cpc EXCEPT ![c] = "blocked"]
          /\ UNCHANGED lc
    /\ waited' = [waited EXCEPT ![c] = Limited /\ ~ChanHasRoom(lc, max)]
    /\ UNCHANGED <<max, panicking>>
    /\ UNCHANGED gatewayVars

\* c.Next() ends, by returning or by panicking; the deferred function is
\* pending in both cases.
NextReturns(c) ==
    /\ cpc[c] = "next"
    /\ cpc' = [cpc EXCEPT ![c] = "deferred"]
    /\ panicking' = [panicking EXCEPT ![c] = FALSE]
    /\ UNCHANGED <<max, lc, sendq, waited>>
    /\ UNCHANGED gatewayVars

NextPanics(c) ==
    /\ cpc[c] = "next"
    /\ cpc' = [cpc EXCEPT ![c] = "deferred"]
    /\ panicking' = [panicking EXCEPT ![c] = TRUE]
    /\ UNCHANGED <<max, lc, sendq, waited>>
    /\ UNCHANGED gatewayVars

\* The deferred "<-lc". A receive from a full channel with a parked sender
\* takes one token and lets the first parked sender put its token in, which
\* completes that sender's send; otherwise the buffer shrinks by one.
Release_Leak(c) ==
    /\ cpc[c] = "deferred"
    /\ cpc' = [cpc EXCEPT ![c] = "done"]
    /\ UNCHANGED <<max, lc, sendq, panicking, waited>>
    /\ UNCHANGED gatewayVars

\* a receive placed after c.Next() and not deferred: skipped by a panic
Release_SkipOnPanic(c) ==
    /\ cpc[c] = "deferred"
    /\ \/ /\ ~Limited \/ panicking[c]
          /\ cpc' = [cpc EXCEPT ![c] = "done"]
          /\ UNCHANGED <<lc, sendq>>
       \/ /\ Limited /\ ~panicking[c]
          /\ sendq = <<>>
          /\ lc' = lc - 1
          /\ cpc' = [cpc EXCEPT ![c] = "done"]
          /\ UNCHANGED sendq
       \/ /\ Limited /\ ~panicking[c]
          /\ sendq # <<>>
          /\ sendq' = Tail(sendq)
          /\ cpc' = [cpc EXCEPT ![c] = "done", ![Head(sendq)] = "next"]
          /\ UNCHANGED lc
    /\ UNCHANGED <<max, panicking, waited>>
    /\ UNCHANGED gatewayVars

Release(c) ==
    /\ cpc[c] = "deferred"
    /\ \/ /\ ~Limited
          /\ cpc' = [cpc EXCEPT ![c] = "done"]
          /\ UNCHANGED <<lc, sendq>>
       \/ /\ Limited
          /\ sendq = <<>>
          /\ lc' = lc - 1
          /\ cpc' = [cpc EXCEPT ![c] = "done"]
          /\ UNCHANGED sendq
       \/ /\ Limited
          /\ sendq # <<>>
          /\ sendq' = Tail(sendq)
          /\ cpc' = [cpc EXCEPT ![c] = "done", ![Head(sendq)] = "next"]
          /\ UNCHANGED lc
    /\ UNCHANGED <<max, panicking, waited>>
    /\ UNCHANGED gatewayVars

\* the connection is reused for the next request
NewRequest(c) ==
    /\ cpc[c] = "done"
    /\ cpc' = [cpc EXCEPT ![c] = "idle"]
    /\ panicking' = [panicking EXCEPT ![c] = FALSE]
    /\ waited' = [waited EXCEPT ![c] = FALSE]
    /\ UNCHANGED <<max, lc, sendq>>
    /\ UNCHANGED gatewayVars

(***************************************************************************)
(* The validator proxy (node/validator.go).                                *)
(***************************************************************************)
\* largest balance the upstream reports for the pay account
MaxBalance == 1
\* largest nonce the upstream reports for the pay account
MaxNonce == 1
\* largest builder fee a bid carries
MaxFee == 2
\* width of the machine word in the uint64 -> int64 conversion of the fee
\* ceiling, scaled down from 64 so that its whole range can be explored
WordBits == 3

\* pointers: the nil pointer, a pointer to v, and the value pointed to
Nil == <<>>
Ptr(v) == <<v>>
Deref(p) == p[1]

ChainIDs == {56}
Balances == 0..MaxBalance
Nonces == 0..MaxNonce
\* BuilderFeeCeil values the upstream reports: a small one and the largest
\* value of the unsigned word
FeeCeils == {1, 2^WordBits - 1}
MevParamsValues == [BuilderFeeCeil : FeeCeils]
\* *big.Int builder fees of a bid; the pointer may be nil
Fees == {Nil} \cup {Ptr(f) : f \in 0..MaxFee}
\* addresses a bid signature recovers to
Builders == {"b1"}
\* gas limit of the pay bid transaction
PayBidTxGasUsed == 25000


(***************************************************************************)
(* What the chain client hands back.  A successful call returns a value    *)
(* and a nil error.  A failed call returns an error and, for ChainID and   *)
(* MevParams, a nil pointer; for MevRunning and NonceAt the zero value of  *)
(* the result type.  ethclient.BalanceAt hands back its result holder      *)
(* together with the error, so a failed balance fetch may come with a nil  *)
(* or with a non-nil zero *big.Int.                                        *)
(***************************************************************************)
Ok(v) == [val |-> v, err |-> FALSE]
Fail(v) == [val |-> v, err |-> TRUE]

ChainIDResults == {Ok(Ptr(v)) : v \in ChainIDs} \cup {Fail(Nil)}
MevRunningResults == {Ok(v) : v \in BOOLEAN} \cup {Fail(FALSE)}
BalanceAtResults == {Ok(Ptr(v)) : v \in Balances} \cup {Fail(Nil), Fail(Ptr(0))}
NonceAtResults == {Ok(v) : v \in Nonces} \cup {Fail(0)}
MevParamsResults == {Ok(Ptr(v)) : v \in MevParamsValues} \cup {Fail(Nil)}

\* "if x != nil { field.Store(x) }"
StoreIfNotNil_Always(old, new) == new
StoreIfNotNil_Once(old, new) == IF old = Nil THEN new ELSE old
StoreIfNotNil(old, new) == IF new # Nil THEN new ELSE old

\* "if mevRunning { Store(1) } else { Store(0) }"
RunningFlag_SetOnly(b) == 1
RunningFlag(b) == IF b THEN 1 ELSE 0

\* the statement refresh() goes on with after the fetch at position p
AfterFetch_ReturnOnErr(p, e) ==
    IF e THEN "idle"
    ELSE CASE p = "chainID" -> "mevRunning"
           [] p = "mevRunning" -> "balance"
           [] p = "balance" -> "nonce"
           [] p = "nonce" -> "params"
           [] p = "params" -> "idle"
AfterFetch(p, e) ==
    CASE p = "chainID" -> "mevRunning"
      [] p = "mevRunning" -> "balance"
      [] p = "balance" -> "nonce"
      [] p = "nonce" -> "params"
      [] p = "params" -> "idle"

ValidatorInit ==
    /\ chainID = Nil
    /\ mevRunning = 0
    /\ mevParams = Nil
    /\ payAccountBalance = Nil
    /\ payAccountNonce = 0
    /\ rpc = "idle"
    /\ err = FALSE
    /\ fetched = Nil
    /\ failed = FALSE
    /\ cycle = 0
    /\ balanceCycle = 0
    /\ nonceCycle = 0

\* a scheduler that gives the job up after a run with a failed fetch
RefreshStart_UntilFailure ==
    /\ rpc = "idle"
    /\ ~failed
    /\ rpc' = "chainID"
    /\ cycle' = IF cycle = 1 THEN 2 ELSE 1
    /\ err' = FALSE
    /\ fetched' = Nil
    /\ failed' = FALSE
    /\ UNCHANGED <<cacheVars, balanceCycle, nonceCycle>>
    /\ UNCHANGED <<overlapVars, pairVars, startupVars, metricVars, limiterVars, call, dispatchVars>>

\* the scheduler starts a run of refresh()
RefreshStart ==
    /\ rpc = "idle"
    /\ rpc' = "chainID"
    /\ cycle' = IF cycle = 1 THEN 2 ELSE 1
    /\ err' = FALSE
    /\ fetched' = Nil
    /\ failed' = FALSE
    /\ UNCHANGED <<cacheVars, balanceCycle, nonceCycle>>
    /\ UNCHANGED <<overlapVars, pairVars, startupVars, metricVars, limiterVars, call, dispatchVars>>

\* validator.go 154-162
RefreshChainID ==
    /\ rpc = "chainID"
    /\ \E r \in ChainIDResults :
        /\ err' = r.err
        /\ fetched' = r.val
        /\ failed' = (failed \/ r.err)
        /\ chainID' = StoreIfNotNil(chainID, r.val)
    /\ rpc' = AfterFetch(rpc, err')
    /\ UNCHANGED <<mevRunning, mevParams, payAccountBalance, payAccountNonce,
                   cycle, balanceCycle, nonceCycle>>
    /\ UNCHANGED <<overlapVars, pairVars, startupVars, metricVars, limiterVars, call, dispatchVars>>

\* validator.go 164-174
RefreshMevRunning ==
    /\ rpc = "mevRunning"
    /\ \E r \in MevRunningResults :
        /\ err' = r.err
        /\ fetched' = r.val
        /\ failed' = (failed \/ r.err)
        /\ mevRunning' = RunningFlag(r.val)
    /\ rpc' = AfterFetch(rpc, err')
    /\ UNCHANGED <<chainID, mevParams, payAccountBalance, payAccountNonce,
                   cycle, balanceCycle, nonceCycle>>
    /\ UNCHANGED <<overlapVars, pairVars, startupVars, metricVars, limiterVars, call, dispatchVars>>

\* validator.go 176-184
RefreshBalance ==
    /\ rpc = "balance"
    /\ \E r \in BalanceAtResults :
        /\ err' = r.err
        /\ fetched' = r.val
        /\ failed' = (failed \/ r.err)
        /\ payAccountBalance' = StoreIfNotNil(payAccountBalance, r.val)
        /\ balanceCycle' = IF r.val # Nil THEN cycle ELSE balanceCycle
    /\ rpc' = AfterFetch(rpc, err')
    /\ UNCHANGED <<chainID, mevRunning, mevParams, payAccountNonce,
                   cycle, nonceCycle>>
    /\ UNCHANGED <<overlapVars, pairVars, startupVars, metricVars, limiterVars, call, dispatchVars>>

\* validator.go 186-194
RefreshNonce ==
    /\ rpc = "nonce"
    /\ \E r \in NonceAtResults :
        /\ err' = r.err
        /\ fetched' = r.val
        /\ failed' = (failed \/ r.err)
        /\ payAccountNonce' = r.val
    /\ nonceCycle' = cycle
    /\ rpc' = AfterFetch(rpc, err')
    /\ UNCHANGED <<chainID, mevRunning, mevParams, payAccountBalance,
                   cycle, balanceCycle>>
    /\ UNCHANGED <<overlapVars, pairVars, startupVars, metricVars, limiterVars, call, dispatchVars>>

\* validator.go 196-205
RefreshMevParams ==
    /\ rpc = "params"
    /\ \E r \in MevParamsResults :
        /\ err' = r.err
        /\ fetched' = r.val
        /\ failed' = (failed \/ r.err)
        /\ mevParams' = StoreIfNotNil(mevParams, r.val)
    /\ rpc' = AfterFetch(rpc, err')
    /\ UNCHANGED <<chainID, mevRunning, payAccountBalance, payAccountNonce,
                   cycle, balanceCycle, nonceCycle>>
    /\ UNCHANGED <<overlapVars, pairVars, startupVars, metricVars, limiterVars, call, dispatchVars>>

(***************************************************************************)
(* Runs of refresh() side by side.                                         *)
(***************************************************************************)
\* number of runs followed
MaxRuns == 2
Runs == 1..MaxRuns

JobsInit == jobs = [j \in Runs |-> [pc |-> "waiting", err |-> FALSE]]

\* validator.go 97-103: the scheduler's timer starts the next run one
\* interval after it started the run before
JobStart(j) ==
    /\ jobs[j].pc = "waiting"
    /\ j > 1 => jobs[j - 1].pc # "waiting"
    /\ jobs' = [jobs EXCEPT ![j].pc = "chainID"]
    /\ UNCHANGED <<cacheVars, refreshVars>>
    /\ UNCHANGED <<pairVars, startupVars, metricVars, limiterVars, call, dispatchVars>>

\* validator.go 154-162
JobChainID(j) ==
    /\ jobs[j].pc = "chainID"
    /\ \E r \in ChainIDResults :
        /\ jobs' = [jobs EXCEPT ![j] = [pc |-> AfterFetch("chainID", r.err), err |-> r.err]]
        /\ chainID' = StoreIfNotNil(chainID, r.val)
    /\ UNCHANGED <<mevRunning, mevParams, payAccountBalance, payAccountNonce,
                   balanceCycle, nonceCycle>>
    /\ UNCHANGED <<rpc, err, fetched, failed, cycle>>
    /\ UNCHANGED <<pairVars, startupVars, metricVars, limiterVars, call, dispatchVars>>

\* validator.go 164-174
JobMevRunning(j) ==
    /\ jobs[j].pc = "mevRunning"
    /\ \E r \in MevRunningResults :
        /\ jobs' = [jobs EXCEPT ![j] = [pc |-> AfterFetch("mevRunning", r.err), err |-> r.err]]
        /\ mevRunning' = RunningFlag(r.val)
    /\ UNCHANGED <<chainID, mevParams, payAccountBalance, payAccountNonce,
                   balanceCycle, nonceCycle>>
    /\ UNCHANGED <<rpc, err, fetched, failed, cycle>>
    /\ UNCHANGED <<pairVars, startupVars, metricVars, limiterVars, call, dispatchVars>>

\* validator.go 176-184
JobBalance(j) ==
    /\ jobs[j].pc = "balance"
    /\ \E r \in BalanceAtResults :
        /\ jobs' = [jobs EXCEPT ![j] = [pc |-> AfterFetch("balance", r.err), err |-> r.err]]
        /\ payAccountBalance' = StoreIfNotNil(payAccountBalance, r.val)
        /\ balanceCycle' = IF r.val # Nil THEN j ELSE balanceCycle
    /\ UNCHANGED <<chainID, mevRunning, mevParams, payAccountNonce, nonceCycle>>
    /\ UNCHANGED <<rpc, err, fetched, failed, cycle>>
    /\ UNCHANGED <<pairVars, startupVars, metricVars, limiterVars, call, dispatchVars>>

\* validator.go 186-194
JobNonce(j) ==
    /\ jobs[j].pc = "nonce"
    /\ \E r \in NonceAtResults :
        /\ jobs' = [jobs EXCEPT ![j] = [pc |-> AfterFetch("nonce", r.err), err |-> r.err]]
        /\ payAccountNonce' = r.val
    /\ nonceCycle' = j
    /\ UNCHANGED <<chainID, mevRunning, mevParams, payAccountBalance, balanceCycle>>
    /\ UNCHANGED <<rpc, err, fetched, failed, cycle>>
    /\ UNCHANGED <<pairVars, startupVars, metricVars, limiterVars, call, dispatchVars>>

\* validator.go 196-205
JobMevParams(j) ==
    /\ jobs[j].pc = "params"
    /\ \E r \in MevParamsResults :
        /\ jobs' = [jobs EXCEPT ![j] = [pc |-> AfterFetch("params", r.err), err |-> r.err]]
        /\ mevParams' = StoreIfNotNil(mevParams, r.val)
    /\ UNCHANGED <<chainID, mevRunning, payAccountBalance, payAccountNonce,
                   balanceCycle, nonceCycle>>
    /\ UNCHANGED <<rpc, err, fetched, failed, cycle>>
    /\ UNCHANGED <<pairVars, startupVars, metricVars, limiterVars, call, dispatchVars>>

(***************************************************************************)
(* The service's handlers (MevSentry) and the payment generator.           *)
(***************************************************************************)
\* HTTP Host values of inbound calls, as character sequences
Hosts == {<<"v", "1">>, <<"v", "1", ":", "8">>, <<"x">>, <<"x", ":", "8">>}
\* keys of MevSentry.validators: the configured PublicHostName values
ValidatorHosts == {<<"v", "1">>}
\* what a bid's signature recovers to: a builder address, or nothing
Signatures == Builders \cup {"invalid"}
\* address of the validator's pay account
PayAccount == "payAccount"
\* error texts of the upstream client, as word sequences: a dial timeout, a
\* refused connection, the deadline of ctx, the Timeout of the http client
UpstreamErrors ==
    {<<"i/o", "timeout">>,
     <<"connection", "refused">>,
     <<"context", "deadline", "exceeded">>,
     <<"context", "deadline", "exceeded", "(Client.Timeout", "exceeded", "while",
       "awaiting", "headers)">>}
Methods == {"mev_sendBid", "mev_params", "mev_running", "mev_bestBidGasFee"}

\* application error codes: the service's own, and the code of the errors
\* types.NewInvalidBidError makes
sentryErrorCode == -38006
InvalidBidParamError == -38001

NoErr == [msg |-> <<>>, code |-> Nil]
\* errors.New(msg)
PlainError(m) == [msg |-> m, code |-> Nil]
\* types.NewInvalidBidError(msg)
NewInvalidBidError(m) == [msg |-> m, code |-> Ptr(InvalidBidParamError)]
\* newSentryError(msg)
newSentryError(m) == [msg |-> m, code |-> Ptr(sentryErrorCode)]

\* strings.Contains(err.Error(), word)
Contains(m, w) == \E i \in DOMAIN m : m[i] = w

\* strings.Index(hostname, ":"), counted from 1; 0 when absent
IndexColon(h) ==
    IF \E i \in DOMAIN h : h[i] = ":"
    THEN CHOOSE i \in DOMAIN h : h[i] = ":" /\ \A j \in 1..(i - 1) : h[j] # ":"
    ELSE 0

\* "if strings.Contains(hostname, ":") { hostname = hostname[:Index] }"
StripPort_Keep(h) == h
StripPort(h) == IF IndexColon(h) > 0 THEN SubSeq(h, 1, IndexColon(h) - 1) ELSE h

\* validator, ok := s.validators[hostname]
LookupOk_Any(h) == TRUE
LookupOk(h) == h \in ValidatorHosts

(***************************************************************************)
(* Routing of a validator-bound call (part_001 64-74, the same in          *)
(* BestBidGasFee, Params and Running).                                     *)
(***************************************************************************)
\* hostnames a caller may name, as character sequences without a port
Names == {<<"v", "1">>, <<"v", "2">>, <<"x">>}
\* the port suffix of a Host, if any
Ports == {Nil, <<"8">>, <<"8", "0">>}
\* the Host header: the name, or name ":" port
HostOf(name, port) == IF port = Nil THEN name ELSE name \o <<":">> \o port

\* validator, ok := table[hostname]; the validator is identified by its key
Lookup(table, h) == IF h \in table THEN Ptr(h) ELSE Nil

IdleRoute(table) ==
    [pc |-> "idle", table |-> table, method |-> "", name |-> <<>>, port |-> Nil,
     host |-> <<>>, hostname |-> <<>>, validator |-> Nil]

\* the handler of a validator-bound method resolves its validator
Resolve ==
    /\ route.pc = "idle"
    /\ \E m \in Methods, name \in Names, port \in Ports :
        LET h == HostOf(name, port)
        IN  route' = [route EXCEPT !.pc = "resolved", !.method = m,
                                   !.name = name, !.port = port, !.host = h,
                                   !.hostname = StripPort(h),
                                   !.validator = Lookup(route.table, StripPort(h))]
    /\ UNCHANGED <<overlapVars, pairVars, startupVars, metricVars, limiterVars, cacheVars, refreshVars, call, upcall>>

\* the call ends
Resolved ==
    /\ route.pc = "resolved"
    /\ route' = IdleRoute(route.table)
    /\ UNCHANGED <<overlapVars, pairVars, startupVars, metricVars, limiterVars, cacheVars, refreshVars, call, upcall>>

(***************************************************************************)
(* The per-call deadline (part_001 55 and 226-234, the same statement in   *)
(* every handler) and the upstream call made under it.                     *)
(***************************************************************************)
\* configured RPCTimeout values, in seconds: negative, unset, and positive
\* ones below and above the timeout of the http client
Timeouts == {-1, 0, 2, 7}
\* times the upstream may need to answer, in seconds
Durations == {1, 3, 6, 8}
\* Timeout of the http.Client every upstream connection is dialled with
HTTPClientTimeout == 5

\* timeoutCancel(&ctx, timeout): the deadline of ctx afterwards, given its
\* deadline d before; "defer timeoutCancel(&ctx, s.timeout)()" evaluates the
\* call at once and defers only the cancel function it returns
timeoutCancel_Never(d, timeout) == d
timeoutCancel(d, timeout) ==
    IF timeout > 0
    THEN (IF d # Nil /\ Deref(d) < timeout THEN d ELSE Ptr(timeout))
    ELSE d

ErrDeadlineExceeded == PlainError(<<"context", "deadline", "exceeded">>)
ErrClientTimeout ==
    PlainError(<<"context", "deadline", "exceeded", "(Client.Timeout",
                 "exceeded", "while", "awaiting", "headers)">>)

IdleUpcall(timeout) ==
    [pc |-> "idle", timeout |-> timeout, deadline |-> Nil, took |-> 0,
     cancelled |-> FALSE, err |-> NoErr]

\* a handler starts: the deferred statements of its first lines
BeginCall ==
    /\ upcall.pc = "idle"
    /\ upcall' = [upcall EXCEPT !.pc = "upstream",
                                !.deadline = timeoutCancel(Nil, upcall.timeout)]
    /\ UNCHANGED <<overlapVars, pairVars, startupVars, metricVars, limiterVars, cacheVars, refreshVars, call, route>>

\* the upstream call under ctx, through the shared http client: it ends with
\* the answer, or when the deadline of ctx or the client's Timeout is reached
UpstreamCall ==
    /\ upcall.pc = "upstream"
    /\ \E d \in Durations :
        upcall' =
          IF upcall.deadline # Nil /\ Deref(upcall.deadline) <= d
             /\ Deref(upcall.deadline) <= HTTPClientTimeout
          THEN [upcall EXCEPT !.pc = "done", !.took = d, !.cancelled = TRUE,
                              !.err = ErrDeadlineExceeded]
          ELSE IF HTTPClientTimeout <= d
          THEN [upcall EXCEPT !.pc = "done", !.took = d, !.cancelled = TRUE,
                              !.err = ErrClientTimeout]
          ELSE [upcall EXCEPT !.pc = "done", !.took = d]
    /\ UNCHANGED <<overlapVars, pairVars, startupVars, metricVars, limiterVars, cacheVars, refreshVars, call, route>>

\* the handler returns; the deferred cancel function runs
EndCall ==
    /\ upcall.pc = "done"
    /\ upcall' = IdleUpcall(upcall.timeout)
    /\ UNCHANGED <<overlapVars, pairVars, startupVars, metricVars, limiterVars, cacheVars, refreshVars, call, route>>

\* int64(x) of an unsigned word
Int64(u) == IF u >= 2^(WordBits - 1) THEN u - 2^WordBits ELSE u

\* validator.MevRunning(): atomic.LoadUint32(&n.mevRunning) == 1
MevRunning_Live == ~err /\ mevRunning = 1
MevRunning == mevRunning = 1

\* validator.MevParams(): n.mevParams.Load()
MevParams == mevParams

\* validator.BuilderFeeCeil(): the cached ceiling, 0 while mevParams is nil
BuilderFeeCeil_NoneYet ==
    IF mevParams # Nil THEN Deref(mevParams).BuilderFeeCeil ELSE 2^(WordBits - 1) - 1
BuilderFeeCeil == IF mevParams # Nil THEN Deref(mevParams).BuilderFeeCeil ELSE 0

\* "args.RawBid.BuilderFee.Cmp(bidFeeCeil) > 0"
FeeExceeds_Never(f, ceil) == FALSE
FeeExceeds(f, ceil) == f > ceil

\* "n.payAccountBalance.Load().Cmp(amount) < 0"
Insufficient_Never(b, amount) == FALSE
Insufficient(b, amount) == b < amount

\* amount of GeneratePayBidTx: the builder fee, zero for a nil fee
Amount(fee) == IF fee # Nil THEN Deref(fee) ELSE 0

\* types.NewTx(&types.LegacyTx{...})
NewTx_FreshNonce(nonce, to, value) ==
    [Nonce |-> 0, GasPrice |-> 0, Gas |-> PayBidTxGasUsed, To |-> to,
     Value |-> value]
NewTx(nonce, to, value) ==
    [Nonce |-> nonce, GasPrice |-> 0, Gas |-> PayBidTxGasUsed, To |-> to,
     Value |-> value]

\* the signer's hash of a transaction: the fields the signature covers,
\* with the chain id when there is one (the signer chosen for a nil chain id
\* leaves it out)
SigHash(nonce, gasPrice, gas, to, value, cid) ==
    <<nonce, gasPrice, gas, to, value, cid>>

\* payAccount.SignTx(tx, chainID): the transaction with the signature values
\* set: V carries the chain id, RS is the pay account's signature of the hash
SignTx(tx, cid) ==
    [Nonce |-> tx.Nonce, GasPrice |-> tx.GasPrice, Gas |-> tx.Gas,
     To |-> tx.To, Value |-> tx.Value, V |-> cid,
     RS |-> [key |-> PayAccount,
             hash |-> SigHash(tx.Nonce, tx.GasPrice, tx.Gas, tx.To, tx.Value, cid)]]

\* signedTx.MarshalBinary(): the fields in their encoding order
MarshalBinary(stx) ==
    <<stx.Nonce, stx.GasPrice, stx.Gas, stx.To, stx.Value, stx.V, stx.RS>>

\* Transaction.UnmarshalBinary: the decoding of the bytes on the receiving
\* side
UnmarshalBinary(b) ==
    [Nonce |-> b[1], GasPrice |-> b[2], Gas |-> b[3], To |-> b[4],
     Value |-> b[5], V |-> b[6], RS |-> b[7]]

\* types.Sender: the address the signature recovers to; a signature made
\* over other fields recovers to some other address
Sender(stx) ==
    IF stx.RS.hash = SigHash(stx.Nonce, stx.GasPrice, stx.Gas, stx.To, stx.Value, stx.V)
    THEN stx.RS.key
    ELSE "unknown"


IdleCall ==
    [pc |-> "idle", method |-> "", hostname |-> <<>>, fee |-> Nil, sig |-> "",
     builder |-> "", tx |-> Nil, payBidTx |-> Nil, sent |-> Nil,
     ret |-> Nil, err |-> NoErr, panicked |-> FALSE,
     generated |-> FALSE, signed |-> FALSE, genErr |-> NoErr,
     balanceCycleRead |-> 0, nonceCycleRead |-> 0, upstream |-> FALSE,
     balance |-> Nil, nonce |-> 0, chainRead |-> FALSE, upErr |-> NoErr,
     issueBuilder |-> "", peer |-> Nil]

HandlerInit == call = IdleCall

\* the handler returns err e
Fails(c, e) == [c EXCEPT !.pc = "done", !.err = e]
\* the handler crashes; the rpc server reports the crash to the caller
Crashes(c) ==
    [c EXCEPT !.pc = "done", !.panicked = TRUE,
              !.err = PlainError(<<"method", "handler", "crashed">>)]

\* part_001 51-89: SendBid up to the call of GeneratePayBidTx, for the call
\* record old, the Host h, the builder fee f and the signature sg
SendBidStarted(old, h, f, sg) ==
    LET c == [old EXCEPT !.method = "mev_sendBid", !.hostname = StripPort(h), !.fee = f,
                         !.sig = sg]
    IN  IF ~LookupOk(c.hostname)
        THEN Fails(c, NewInvalidBidError(<<"validator", "hostname", "not", "found">>))
        ELSE IF f = Nil
        THEN Crashes(c)
        ELSE IF FeeExceeds(Deref(f), Int64(BuilderFeeCeil))
        THEN Fails(c, NewInvalidBidError(<<"bid", "fee", "exceeds", "the", "ceiling">>))
        ELSE IF sg \notin Builders
        THEN Fails(c, NewInvalidBidError(<<"invalid", "signature">>))
        ELSE [c EXCEPT !.pc = "genBalance", !.builder = sg,
                       !.generated = TRUE]

SendBidStart ==
    /\ call.pc = "idle"
    /\ \E h \in Hosts, f \in Fees, sg \in Signatures :
        call' = SendBidStarted(call, h, f, sg)
    /\ UNCHANGED <<overlapVars, pairVars, startupVars, metricVars, limiterVars, cacheVars, refreshVars, dispatchVars>>

\* validator.go 226-239: the balance check of GeneratePayBidTx;
\* part_001 92-96 wraps its error
BalanceChecked(c) ==
    IF payAccountBalance = Nil
    THEN Crashes(c)
    ELSE IF Insufficient(Deref(payAccountBalance), Amount(c.fee))
    THEN [Fails(c, newSentryError(<<"failed", "to", "create", "pay", "bid", "tx">>))
            EXCEPT !.genErr = PlainError(<<"insufficient", "balance">>)]
    ELSE [c EXCEPT !.pc = "genNonce", !.balanceCycleRead = balanceCycle]

GenBalance ==
    /\ call.pc = "genBalance"
    /\ call' = BalanceChecked(call)
    /\ UNCHANGED <<overlapVars, pairVars, startupVars, metricVars, limiterVars, cacheVars, refreshVars, dispatchVars>>

\* a generator that reserves the nonce it hands out
GenNonce_Reserve ==
    /\ call.pc = "genNonce"
    /\ call' = [call EXCEPT !.pc = "genSign",
                            !.tx = Ptr(NewTx(payAccountNonce, call.builder, Amount(call.fee))),
                            !.nonceCycleRead = nonceCycle]
    /\ payAccountNonce' = (payAccountNonce + 1) % (MaxNonce + 1)
    /\ UNCHANGED <<overlapVars, pairVars, startupVars, metricVars, limiterVars, chainID, mevRunning, mevParams, payAccountBalance,
                   refreshVars, dispatchVars>>

\* validator.go 241-247: the transaction is built on the cached nonce
TxBuilt(c) ==
    [c EXCEPT !.pc = "genSign",
              !.tx = Ptr(NewTx(payAccountNonce, c.builder, Amount(c.fee))),
              !.nonceCycleRead = nonceCycle]

GenNonce ==
    /\ call.pc = "genNonce"
    /\ call' = TxBuilt(call)
    /\ UNCHANGED <<overlapVars, pairVars, startupVars, metricVars, limiterVars, cacheVars, refreshVars, dispatchVars>>

\* validator.go 249-261: sign with the cached chain id and encode;
\* part_001 92-96 returns when the generator failed
GenSign_IgnoreErr ==
    /\ call.pc = "genSign"
    /\ \E signOk \in BOOLEAN :
        call' =
          IF signOk
          THEN [call EXCEPT !.pc = "forward", !.signed = TRUE,
                            !.balanceCycleRead = 0, !.nonceCycleRead = 0,
                            !.payBidTx = Ptr(MarshalBinary(SignTx(Deref(call.tx), chainID)))]
          ELSE [call EXCEPT !.pc = "forward", !.signed = TRUE,
                            !.balanceCycleRead = 0, !.nonceCycleRead = 0,
                            !.genErr = PlainError(<<"sign", "failed">>)]
    /\ UNCHANGED <<overlapVars, pairVars, startupVars, metricVars, limiterVars, cacheVars, refreshVars, dispatchVars>>

TxSigned(c, signOk) ==
    IF signOk
    THEN [c EXCEPT !.pc = "forward", !.signed = TRUE,
                   !.balanceCycleRead = 0, !.nonceCycleRead = 0,
                   !.payBidTx = Ptr(MarshalBinary(SignTx(Deref(c.tx), chainID)))]
    ELSE [Fails(c, newSentryError(<<"failed", "to", "create", "pay", "bid", "tx">>))
            EXCEPT !.signed = TRUE,
                   !.balanceCycleRead = 0, !.nonceCycleRead = 0,
                   !.genErr = PlainError(<<"sign", "failed">>)]

GenSign ==
    /\ call.pc = "genSign"
    /\ \E signOk \in BOOLEAN : call' = TxSigned(call, signOk)
    /\ UNCHANGED <<overlapVars, pairVars, startupVars, metricVars, limiterVars, cacheVars, refreshVars, dispatchVars>>

\* part_001 98-100 and validator.go 121-133: attach and forward upstream
Forwarded(old, r) ==
    LET c == [old EXCEPT !.sent = Ptr([fee |-> old.fee, sig |-> old.sig,
                                       PayBidTx |-> old.payBidTx]),
                         !.upstream = TRUE]
    IN  IF ~r.err
        THEN [c EXCEPT !.pc = "done", !.ret = Ptr(r.val)]
        ELSE IF Contains(r.val, "timeout")
        THEN [Fails(c, PlainError(<<"timeout", "when", "send", "bid", "to", "validator">>))
                EXCEPT !.upErr = PlainError(r.val)]
        ELSE [Fails(c, PlainError(r.val)) EXCEPT !.upErr = PlainError(r.val)]

Forward ==
    /\ call.pc = "forward"
    /\ \E r \in {Ok("bidHash")} \cup {Fail(m) : m \in UpstreamErrors} :
        call' = Forwarded(call, r)
    /\ UNCHANGED <<overlapVars, pairVars, startupVars, metricVars, limiterVars, cacheVars, refreshVars, dispatchVars>>

\* part_001 132-159 and validator.go 211-213
Params ==
    /\ call.pc = "idle"
    /\ \E h \in Hosts :
        LET c == [call EXCEPT !.method = "mev_params", !.hostname = StripPort(h)]
        IN  call' =
              IF ~LookupOk(c.hostname)
              THEN Fails(c, NewInvalidBidError(<<"validator", "hostname", "not", "found">>))
              ELSE [c EXCEPT !.pc = "done", !.ret = MevParams]
    /\ UNCHANGED <<overlapVars, pairVars, startupVars, metricVars, limiterVars, cacheVars, refreshVars, dispatchVars>>

\* part_001 161-188 and validator.go 135-137
Running ==
    /\ call.pc = "idle"
    /\ \E h \in Hosts :
        LET c == [call EXCEPT !.method = "mev_running", !.hostname = StripPort(h)]
        IN  call' =
              IF ~LookupOk(c.hostname)
              THEN Fails(c, NewInvalidBidError(<<"validator", "hostname", "not", "found">>))
              ELSE [c EXCEPT !.pc = "done", !.ret = Ptr(MevRunning)]
    /\ UNCHANGED <<overlapVars, pairVars, startupVars, metricVars, limiterVars, cacheVars, refreshVars, dispatchVars>>

\* part_001 103-130 and validator.go 207-209: passed through to the upstream
BestBidGasFee ==
    /\ call.pc = "idle"
    /\ \E h \in Hosts, r \in {Ok(Ptr(0))} \cup {Fail(m) : m \in UpstreamErrors} :
        LET c == [call EXCEPT !.method = "mev_bestBidGasFee", !.hostname = StripPort(h)]
        IN  call' =
              IF ~LookupOk(c.hostname)
              THEN Fails(c, NewInvalidBidError(<<"validator", "hostname", "not", "found">>))
              ELSE IF r.err
              THEN [Fails(c, PlainError(r.val)) EXCEPT !.upstream = TRUE]
              ELSE [c EXCEPT !.pc = "done", !.ret = r.val, !.upstream = TRUE]
    /\ UNCHANGED <<overlapVars, pairVars, startupVars, metricVars, limiterVars, cacheVars, refreshVars, dispatchVars>>

\* the response is written; the next call can be followed (the meters are
\* followed by Return)
Respond ==
    /\ call.pc = "done"
    /\ call' = IdleCall
    /\ UNCHANGED <<overlapVars, pairVars, startupVars, metricVars, limiterVars, cacheVars, refreshVars, dispatchVars>>

(***************************************************************************)
(* mev_reportIssue and the builders.                                       *)
(***************************************************************************)
\* keys of MevSentry.builders: the configured builder addresses
BuilderAddrs == {"b1", "b2"}
\* builder addresses an issue can carry
IssueBuilders == {"b1", "b2", "b3"}

\* builder, ok := s.builders[address]: a pointer to the configured address
\* of the builder found, Nil when ok is false
BuilderFor_Any(address) == Ptr(CHOOSE a \in BuilderAddrs : TRUE)
BuilderFor(address) == IF address \in BuilderAddrs THEN Ptr(address) ELSE Nil

\* part_001 190-217 and builder.go 41-43
ReportIssue ==
    /\ call.pc = "idle"
    /\ \E a \in IssueBuilders, r \in {Ok(Nil)} \cup {Fail(m) : m \in UpstreamErrors} :
        LET c == [call EXCEPT !.method = "mev_reportIssue", !.issueBuilder = a]
            builder == BuilderFor(a)
        IN  call' =
              IF builder = Nil
              THEN Fails(c, PlainError(<<"builder", "not", "found">>))
              ELSE IF r.err
              THEN [Fails(c, PlainError(r.val)) EXCEPT !.upstream = TRUE, !.peer = builder]
              ELSE [c EXCEPT !.pc = "done", !.upstream = TRUE, !.peer = builder]
    /\ UNCHANGED <<overlapVars, pairVars, startupVars, metricVars, limiterVars, cacheVars, refreshVars, dispatchVars>>

(***************************************************************************)
(* The deferred functions of a handler: the error counter and the latency  *)
(* histogram.                                                              *)
(***************************************************************************)
GatewayMethods == Methods \cup {"mev_reportIssue"}
\* largest number of latency observations followed
MaxObserved == 2

\* strconv.Itoa: the decimal digits, after a minus sign when negative
Digit(d) == <<"0", "1", "2", "3", "4", "5", "6", "7", "8", "9">>[d + 1]
RECURSIVE FormatUint(_)
FormatUint(n) == IF n < 10 THEN <<Digit(n)>> ELSE Append(FormatUint(n \div 10), Digit(n % 10))
Itoa(n) == IF n < 0 THEN <<"-">> \o FormatUint(-n) ELSE FormatUint(n)

\* the label pairs of ApiErrorCounter that are followed
ErrorLabels == GatewayMethods \X {Itoa(sentryErrorCode), Itoa(InvalidBidParamError)}

MetricsInit ==
    /\ ApiErrorCounter = [l \in ErrorLabels |-> 0]
    /\ ApiLatencyHist = [m \in GatewayMethods |-> 0]

\* "rpcErr, ok := err.(rpc.Error)": the error has an ErrorCode method
IsRPCError(e) == e.code # Nil

\* the value of the result err when the deferred functions run: what the
\* handler assigned, nil when the handler is unwinding from a panic
ResultErr(c) == IF c.panicked THEN NoErr ELSE c.err

RECURSIVE SumOver(_, _)
SumOver(f, S) ==
    IF S = {} THEN 0 ELSE LET x == CHOOSE y \in S : TRUE IN f[x] + SumOver(f, S \ {x})
\* all latency observations made so far
Observed == SumOver(ApiLatencyHist, GatewayMethods)

\* part_001 54-62 (and the same lines of each handler): the handler returns,
\* its deferred functions run in reverse order, the response is written
Return ==
    /\ call.pc = "done"
    /\ Observed < MaxObserved
    /\ ApiErrorCounter' =
         IF ResultErr(call) # NoErr /\ IsRPCError(ResultErr(call))
         THEN [ApiErrorCounter EXCEPT
                 ![<<call.method, Itoa(Deref(ResultErr(call).code))>>] = @ + 1]
         ELSE ApiErrorCounter
    /\ ApiLatencyHist' = [ApiLatencyHist EXCEPT ![call.method] = @ + 1]
    /\ call' = IdleCall
    /\ UNCHANGED <<overlapVars, pairVars, startupVars, limiterVars, cacheVars, refreshVars, dispatchVars>>

(***************************************************************************)
(* sendBid calls that run at the same time.                                *)
(***************************************************************************)
\* the calls followed side by side
Pair == {1, 2}

PairInit == calls = [g \in Pair |-> IdleCall]

PairSendBidStart(g) ==
    /\ calls[g].pc = "idle"
    /\ \E h \in Hosts, f \in Fees, sg \in Signatures :
        calls' = [calls EXCEPT ![g] = SendBidStarted(calls[g], h, f, sg)]
    /\ UNCHANGED <<overlapVars, startupVars, metricVars, limiterVars, cacheVars, refreshVars, call,
                   dispatchVars>>

PairGenBalance(g) ==
    /\ calls[g].pc = "genBalance"
    /\ calls' = [calls EXCEPT ![g] = BalanceChecked(calls[g])]
    /\ UNCHANGED <<overlapVars, startupVars, metricVars, limiterVars, cacheVars, refreshVars, call,
                   dispatchVars>>

\* a generator that reserves the nonce it hands out
PairGenNonce_Reserve(g) ==
    /\ calls[g].pc = "genNonce"
    /\ calls' = [calls EXCEPT ![g] = TxBuilt(calls[g])]
    /\ payAccountNonce' = (payAccountNonce + 1) % (MaxNonce + 1)
    /\ UNCHANGED <<overlapVars, startupVars, metricVars, limiterVars, chainID, mevRunning, mevParams,
                   payAccountBalance, refreshVars, call, dispatchVars>>

PairGenNonce(g) ==
    /\ calls[g].pc = "genNonce"
    /\ calls' = [calls EXCEPT ![g] = TxBuilt(calls[g])]
    /\ UNCHANGED <<overlapVars, startupVars, metricVars, limiterVars, cacheVars, refreshVars, call,
                   dispatchVars>>

PairGenSign(g) ==
    /\ calls[g].pc = "genSign"
    /\ \E signOk \in BOOLEAN :
        calls' = [calls EXCEPT ![g] = TxSigned(calls[g], signOk)]
    /\ UNCHANGED <<overlapVars, startupVars, metricVars, limiterVars, cacheVars, refreshVars, call,
                   dispatchVars>>

PairForward(g) ==
    /\ calls[g].pc = "forward"
    /\ \E r \in {Ok("bidHash")} \cup {Fail(m) : m \in UpstreamErrors} :
        calls' = [calls EXCEPT ![g] = Forwarded(calls[g], r)]
    /\ UNCHANGED <<overlapVars, startupVars, metricVars, limiterVars, cacheVars, refreshVars, call,
                   dispatchVars>>

PairRespond(g) ==
    /\ calls[g].pc = "done"
    /\ calls' = [calls EXCEPT ![g] = IdleCall]
    /\ UNCHANGED <<overlapVars, startupVars, metricVars, limiterVars, cacheVars, refreshVars, call,
                   dispatchVars>>

(***************************************************************************)
(* Construction of the validators at the start of the process.             *)
(***************************************************************************)
\* number of configured validators
NumValidators == 2

\* account modes of a configuration: the two known ones and another string
Modes == {"privateKey", "keystore", "other"}
\* a validator's configuration, by what its construction runs into: whether
\* the dial of PrivateURL succeeds, the account mode, whether PrivateKey
\* parses, whether the keystore account is found and unlocked
ValidatorConfigs ==
    [dialOk : BOOLEAN, Mode : Modes, privateKeyOk : BOOLEAN, unlockOk : BOOLEAN]

\* account.New: the error it returns, NoErr when it returns an account
New(config) ==
    CASE config.Mode = "privateKey" ->
           IF config.privateKeyOk THEN NoErr
           ELSE PlainError(<<"invalid", "private", "key">>)
      [] config.Mode = "keystore" ->
           IF config.unlockOk THEN NoErr
           ELSE PlainError(<<"could", "not", "decrypt", "key">>)
      [] OTHER -> PlainError(<<"invalid", "pay", "account", "mode">>)

\* NewValidator: "nil" after a failed dial, "panic" when account.New
\* returns an error (log.Panicw), "validator" otherwise
NewValidator(config) ==
    IF ~config.dialOk THEN "nil"
    ELSE IF New(config) # NoErr THEN "panic"
    ELSE "validator"

IdleBoot(cfgs) == [cfgs |-> cfgs, pc |-> "validators", i |-> 1, validators |-> {}]

\* main: one round of the loop over cfg.Validators
MainNewValidator ==
    /\ boot.pc = "validators"
    /\ boot.i <= Len(boot.cfgs)
    /\ LET validator == NewValidator(boot.cfgs[boot.i])
       IN  boot' =
             IF validator = "panic"
             THEN [boot EXCEPT !.pc = "crashed"]
             ELSE IF validator # "nil"
             THEN [boot EXCEPT !.i = @ + 1, !.validators = @ \cup {boot.i}]
             ELSE [boot EXCEPT !.i = @ + 1]
    /\ UNCHANGED <<overlapVars, pairVars, limiterVars, cacheVars, refreshVars, call, dispatchVars, metricVars>>

\* main: after the loops the rpc server is registered and run
MainServe ==
    /\ boot.pc = "validators"
    /\ boot.i > Len(boot.cfgs)
    /\ boot' = [boot EXCEPT !.pc = "serving"]
    /\ UNCHANGED <<overlapVars, pairVars, limiterVars, cacheVars, refreshVars, call, dispatchVars, metricVars>>

(***************************************************************************)
(* The service of service/sentry.go: SendBid with the generator            *)
(* MevSentry.GeneratePayBidTx, which asks the chain for balance and nonce. *)
(***************************************************************************)
\* sentry.go 71-94: SendBid up to the call of s.GeneratePayBidTx
SentrySendBid ==
    /\ call.pc = "idle"
    /\ \E h \in Hosts, f \in Fees, sg \in Signatures :
        LET c == [call EXCEPT !.method = "mev_sendBid", !.hostname = StripPort(h), !.fee = f,
                              !.sig = sg]
        IN  call' =
              IF ~LookupOk(c.hostname)
              THEN Fails(c, PlainError(<<"validator", "hostname", "not", "found">>))
              ELSE IF sg \notin Builders
              THEN Fails(c, NewInvalidBidError(<<"invalid", "signature">>))
              ELSE [c EXCEPT !.pc = "chainFetch", !.builder = sg, !.generated = TRUE]
    /\ UNCHANGED <<overlapVars, pairVars, startupVars, metricVars, limiterVars, cacheVars, refreshVars, dispatchVars>>

\* sentry.go 105-136 with node.go 62-68: s.chain.Balance and
\* s.chain.PendingNonceAt are calls of the chain client; the generator
\* returns the error of a failed one
SentryChainFetch ==
    /\ call.pc = "chainFetch"
    /\ \E rb \in BalanceAtResults \ {Fail(Nil)}, rn \in NonceAtResults, m \in UpstreamErrors :
        call' =
          IF rb.err \/ rn.err
          THEN [Fails(call, PlainError(m)) EXCEPT !.genErr = PlainError(m),
                                                  !.chainRead = TRUE]
          ELSE [call EXCEPT !.pc = "build", !.balance = rb.val, !.nonce = rn.val,
                            !.chainRead = TRUE]
    /\ UNCHANGED <<overlapVars, pairVars, startupVars, metricVars, limiterVars, cacheVars, refreshVars, dispatchVars>>

\* sentry.go 138-168: balance check, transaction, s.account.SignTx(tx, amount)
SentryBuild ==
    /\ call.pc = "build"
    /\ \E signOk \in BOOLEAN :
        LET amount == Amount(call.fee)
            tx == NewTx(call.nonce, call.builder, amount)
        IN  call' =
              IF Insufficient(Deref(call.balance), amount)
              THEN [Fails(call, PlainError(<<"insufficient", "balance">>))
                      EXCEPT !.genErr = PlainError(<<"insufficient", "balance">>)]
              ELSE IF signOk
              THEN [call EXCEPT !.pc = "forward", !.signed = TRUE, !.tx = Ptr(tx),
                                !.payBidTx = Ptr(MarshalBinary(SignTx(tx, Ptr(amount))))]
              ELSE [Fails(call, PlainError(<<"sign", "failed">>))
                      EXCEPT !.signed = TRUE, !.tx = Ptr(tx),
                             !.genErr = PlainError(<<"sign", "failed">>)]
    /\ UNCHANGED <<overlapVars, pairVars, startupVars, metricVars, limiterVars, cacheVars, refreshVars, dispatchVars>>

(***************************************************************************)
(* Specifications.                                                         *)
(***************************************************************************)
Init ==
    /\ LimiterInit /\ max = MaxCapacity
    /\ MetricsInit
    /\ ValidatorInit
    /\ HandlerInit
    /\ route = IdleRoute(ValidatorHosts)
    /\ upcall = IdleUpcall(0)
    /\ boot = IdleBoot(<<>>)
    /\ PairInit
    /\ JobsInit

Next ==
    \/ RefreshStart
    \/ RefreshChainID
    \/ RefreshMevRunning
    \/ RefreshBalance
    \/ RefreshNonce
    \/ RefreshMevParams
    \/ SendBidStart
    \/ GenBalance
    \/ GenNonce
    \/ GenSign
    \/ Forward
    \/ Params
    \/ Running
    \/ BestBidGasFee
    \/ Respond

\* the validator's refresh job and the handlers of the service
Spec == Init /\ [][Next]_vars

LimiterNext ==
    \E c \in Callers :
        \/ Arrive(c)
        \/ NextReturns(c)
        \/ NextPanics(c)
        \/ Release(c)
        \/ NewRequest(c)

\* the admission limiter with its callers, for every configured capacity
LimiterSpecInit ==
    /\ LimiterInit
    /\ MetricsInit
    /\ ValidatorInit
    /\ HandlerInit
    /\ route = IdleRoute(ValidatorHosts)
    /\ upcall = IdleUpcall(0)
    /\ boot = IdleBoot(<<>>)
    /\ PairInit
    /\ JobsInit

\* the service of service/sentry.go beside its validators' refresh jobs
SentryNext ==
    \/ RefreshStart
    \/ RefreshChainID
    \/ RefreshMevRunning
    \/ RefreshBalance
    \/ RefreshNonce
    \/ RefreshMevParams
    \/ SentrySendBid
    \/ SentryChainFetch
    \/ SentryBuild
    \/ Forward
    \/ Respond

SentrySpec == Init /\ [][SentryNext]_vars

\* The cache as a first run of refresh() without a failed fetch leaves it.
FirstRunDone ==
    /\ \E cid \in ChainIDs, run \in BOOLEAN, b \in Balances, n \in Nonces,
          p \in MevParamsValues :
            /\ chainID = Ptr(cid)
            /\ mevRunning = RunningFlag(run)
            /\ payAccountBalance = Ptr(b)
            /\ payAccountNonce = n
            /\ mevParams = Ptr(p)
            /\ fetched = Ptr(p)
    /\ rpc = "idle"
    /\ err = FALSE
    /\ failed = FALSE
    /\ cycle = 1
    /\ balanceCycle = 1
    /\ nonceCycle = 1

\* the gateway's five methods with their meters, the cache at rest
GatewayInit ==
    /\ LimiterInit /\ max = MaxCapacity
    /\ MetricsInit
    /\ FirstRunDone
    /\ HandlerInit
    /\ route = IdleRoute(ValidatorHosts)
    /\ upcall = IdleUpcall(0)
    /\ boot = IdleBoot(<<>>)
    /\ PairInit
    /\ JobsInit

GatewayNext ==
    \/ SendBidStart
    \/ GenBalance
    \/ GenNonce
    \/ GenSign
    \/ Forward
    \/ Params
    \/ Running
    \/ BestBidGasFee
    \/ ReportIssue
    \/ Return

GatewaySpec == GatewayInit /\ [][GatewayNext]_vars

\* the start of the process, for every list of validator configurations
StartupInit ==
    /\ LimiterInit /\ max = MaxCapacity
    /\ MetricsInit
    /\ ValidatorInit
    /\ HandlerInit
    /\ route = IdleRoute(ValidatorHosts)
    /\ upcall = IdleUpcall(0)
    /\ \E cfgs \in [1..NumValidators -> ValidatorConfigs] : boot = IdleBoot(cfgs)
    /\ PairInit
    /\ JobsInit

StartupNext == MainNewValidator \/ MainServe

StartupSpec == StartupInit /\ [][StartupNext]_vars

\* two sendBid calls side by side while no refresh run writes the cache
PairSpecInit ==
    /\ LimiterInit /\ max = MaxCapacity
    /\ MetricsInit
    /\ FirstRunDone
    /\ HandlerInit
    /\ route = IdleRoute(ValidatorHosts)
    /\ upcall = IdleUpcall(0)
    /\ boot = IdleBoot(<<>>)
    /\ PairInit
    /\ JobsInit

PairNext ==
    \E g \in Pair :
        \/ PairSendBidStart(g)
        \/ PairGenBalance(g)
        \/ PairGenNonce(g)
        \/ PairGenSign(g)
        \/ PairForward(g)
        \/ PairRespond(g)

PairSpec == PairSpecInit /\ [][PairNext]_vars

\* the runs of the refresh job as the scheduler starts them
OverlapNext ==
    \E j \in Runs :
        \/ JobStart(j)
        \/ JobChainID(j)
        \/ JobMevRunning(j)
        \/ JobBalance(j)
        \/ JobNonce(j)
        \/ JobMevParams(j)

OverlapSpec == Init /\ [][OverlapNext]_vars

\* the routing step, for every routing table over Names
RouteInit ==
    /\ LimiterInit /\ max = MaxCapacity
    /\ MetricsInit
    /\ ValidatorInit
    /\ HandlerInit
    /\ \E t \in SUBSET Names : route = IdleRoute(t)
    /\ upcall = IdleUpcall(0)
    /\ boot = IdleBoot(<<>>)
    /\ PairInit
    /\ JobsInit

RouteNext == Resolve \/ Resolved

RouteSpec == RouteInit /\ [][RouteNext]_vars

\* gateway calls under their deadline beside the validator's refresh job,
\* for every configured timeout
DeadlineInit ==
    /\ LimiterInit /\ max = MaxCapacity
    /\ MetricsInit
    /\ ValidatorInit
    /\ HandlerInit
    /\ route = IdleRoute(ValidatorHosts)
    /\ \E t \in Timeouts : upcall = IdleUpcall(t)
    /\ boot = IdleBoot(<<>>)
    /\ PairInit
    /\ JobsInit

DeadlineNext ==
    \/ RefreshStart
    \/ RefreshChainID
    \/ RefreshMevRunning
    \/ RefreshBalance
    \/ RefreshNonce
    \/ RefreshMevParams
    \/ BeginCall
    \/ UpstreamCall
    \/ EndCall

DeadlineSpec == DeadlineInit /\ [][DeadlineNext]_vars

\* The scheduler starts the refresh job every 500 ms and each fetch returns
\* (the http client gives up after its Timeout); every step of the job
\* changes rpc.
DeadlineLiveSpec ==
    /\ DeadlineSpec
    /\ WF_rpc(RefreshStart)
    /\ WF_rpc(RefreshChainID)
    /\ WF_rpc(RefreshMevRunning)
    /\ WF_rpc(RefreshBalance)
    /\ WF_rpc(RefreshNonce)
    /\ WF_rpc(RefreshMevParams)

\* the validator's refresh job alone, started by its scheduler every 500 ms
RefreshNext ==
    \/ RefreshStart
    \/ RefreshChainID
    \/ RefreshMevRunning
    \/ RefreshBalance
    \/ RefreshNonce
    \/ RefreshMevParams

RefreshSpec == Init /\ [][RefreshNext]_vars

\* The scheduler keeps starting the job and each fetch returns (the http
\* client gives up after its Timeout); every step of the job changes rpc.
RefreshLiveSpec ==
    /\ RefreshSpec
    /\ WF_rpc(RefreshStart)
    /\ WF_rpc(RefreshChainID)
    /\ WF_rpc(RefreshMevRunning)
    /\ WF_rpc(RefreshBalance)
    /\ WF_rpc(RefreshNonce)
    /\ WF_rpc(RefreshMevParams)

LimiterSpec == LimiterSpecInit /\ [][LimiterNext]_vars

\* Every handler behind the limiter ends, and a function's deferred call
\* runs once the function ends.
LimiterLiveSpec ==
    /\ LimiterSpec
    /\ \A c \in Callers :
          /\ WF_vars(NextReturns(c) \/ NextPanics(c))
          /\ WF_vars(Release(c))

(***************************************************************************)
(* Properties of the admission limiter.                                    *)
(***************************************************************************)

\* C1: with a capacity max > 0, at most max calls are inside c.Next() at the
\* same time, whatever the interleaving of arrivals and completions.
C1_AtMostMaxExecuting == Limited => Cardinality(Executing) <= max

\* all max slots are taken by executing calls and a further caller is parked
C1_Witness ==
    /\ Limited
    /\ Cardinality(Executing) = max
    /\ sendq # <<>>

\* C2: a caller that arrives while all max slots are held does not start
\* executing while they are all held: it is parked only when the channel is
\* full, and it enters c.Next() only in the step in which another call runs
\* its deferred receive; and a parked caller does enter c.Next(), given that
\* the calls in flight end.
C2_BlockedUntilSlotFrees ==
    /\ [](\A c \in Callers : cpc[c] = "blocked" => lc = max /\ Cardinality(Admitted) = max)
    /\ [][\A c \in Callers :
            (cpc[c] = "blocked" /\ cpc'[c] # "blocked") =>
                /\ cpc'[c] = "next"
                /\ \E d \in Callers \ {c} : cpc[d] = "deferred" /\ cpc'[d] = "done"]_vars
    /\ \A c \in Callers : (cpc[c] = "blocked") ~> (cpc[c] = "next")

\* a caller that was parked is now executing
C2_Witness == \E c \in Callers : cpc[c] = "next" /\ waited[c]

(***************************************************************************)
(* Properties of the refresh job.                                          *)
(***************************************************************************)
\* the steps of refresh() that make a fetch
FetchSteps == {"chainID", "mevRunning", "balance", "nonce", "params"}
\* refresh() has just made the fetch at position p
Fetched(p) == rpc = p /\ rpc' # p

\* C3: the balance GeneratePayBidTx compares with the fee and the nonce it
\* puts into the transaction were stored by the same refresh run (stated for
\* a balance and a nonce that were both stored by some run).
C3_SameCycleSnapshot ==
    (call.pc = "genSign" /\ call.balanceCycleRead # 0 /\ call.nonceCycleRead # 0)
        => call.balanceCycleRead = call.nonceCycleRead

\* C4: a failed liveness fetch leaves the cached liveness flag as it was, and
\* a successful balance fetch stores the fetched balance.
C4_FailedLivenessKeepsFlag ==
    [][/\ (Fetched("mevRunning") /\ err') => mevRunning' = mevRunning
       /\ (Fetched("balance") /\ ~err') => payAccountBalance' = fetched']_vars

\* C5: a failed nonce fetch leaves the cached nonce as it was.
C5_FailedNonceKeepsNonce ==
    [][(Fetched("nonce") /\ err') => payAccountNonce' = payAccountNonce]_vars

\* C6: a failed balance, chain-id or auction-parameter fetch leaves the
\* corresponding cached field as it was.
C6_FailedFetchKeepsField ==
    [][/\ (Fetched("chainID") /\ err') => chainID' = chainID
       /\ (Fetched("balance") /\ err') => payAccountBalance' = payAccountBalance
       /\ (Fetched("params") /\ err') => mevParams' = mevParams]_vars

\* the fetch that follows the fetch at position p in refresh()
FetchAfter(p) ==
    CASE p = "chainID" -> "mevRunning"
      [] p = "mevRunning" -> "balance"
      [] p = "balance" -> "nonce"
      [] p = "nonce" -> "params"
      [] p = "params" -> "idle"

\* C7: within one run of refresh(), whether or not a fetch fails the run goes
\* on to the next fetch, and every fetch that succeeds stores what it fetched
\* in that run.
C7_FetchesIndependent ==
    [][/\ \A p \in FetchSteps : Fetched(p) => rpc' = FetchAfter(p)
       /\ (Fetched("chainID") /\ ~err') => chainID' = fetched'
       /\ (Fetched("mevRunning") /\ ~err') => (mevRunning' = 1) = fetched'
       /\ (Fetched("balance") /\ ~err') => payAccountBalance' = fetched'
       /\ (Fetched("nonce") /\ ~err') => payAccountNonce' = fetched'
       /\ (Fetched("params") /\ ~err') => mevParams' = fetched']_vars

\* an earlier fetch of this run failed and the balance fetch that followed
\* succeeded and stored its value
C7_Witness ==
    /\ rpc = "nonce"
    /\ failed
    /\ ~err
    /\ payAccountBalance = fetched

(***************************************************************************)
(* Properties of the request path.                                         *)
(***************************************************************************)
ErrFeeCeiling == NewInvalidBidError(<<"bid", "fee", "exceeds", "the", "ceiling">>)
ErrInsufficientBalance == PlainError(<<"insufficient", "balance">>)
\* a step of the handler: it starts, advances or ends the call
HandlerStep == call' # call

\* C8: a sendBid whose builder fee is strictly greater than the validator's
\* fee ceiling fails with the fee-ceiling error; the payment generator is not
\* entered and nothing is forwarded upstream in that call.
C8_FeeAboveCeilingRejected ==
    /\ [][(/\ call.pc = "idle"
           /\ call'.method = "mev_sendBid"
           /\ LookupOk(call'.hostname)
           /\ call'.fee # Nil
           /\ Deref(call'.fee) > BuilderFeeCeil)
          => (/\ call'.pc = "done"
              /\ call'.err = ErrFeeCeiling)]_vars
    /\ [](call.err = ErrFeeCeiling =>
            ~call.generated /\ ~call.signed /\ call.payBidTx = Nil /\ call.sent = Nil)

\* a bid with a fee above the ceiling was rejected
C8_Witness ==
    /\ call.pc = "done"
    /\ call.err = ErrFeeCeiling
    /\ Deref(call.fee) > BuilderFeeCeil
    /\ ~call.generated

\* C9: when the cached balance is below the fee, GeneratePayBidTx fails with
\* the insufficient-balance error and SignTx is not called in that call.
C9_InsufficientBalanceNoSign ==
    /\ [][(/\ call.pc = "genBalance"
           /\ HandlerStep
           /\ payAccountBalance # Nil
           /\ Deref(payAccountBalance) < Amount(call.fee))
          => (/\ call'.pc = "done"
              /\ call'.genErr = ErrInsufficientBalance)]_vars
    /\ [](call.genErr = ErrInsufficientBalance =>
            ~call.signed /\ call.tx = Nil /\ call.payBidTx = Nil)

\* GeneratePayBidTx failed for a fee above the cached balance
C9_Witness ==
    /\ call.pc = "done"
    /\ call.genErr = ErrInsufficientBalance
    /\ call.fee # Nil
    /\ Deref(call.fee) > 0
    /\ ~call.signed

\* C10: no step of a handler (sendBid with its fee-ceiling read and its
\* GeneratePayBidTx, params, running, bestBidGasFee) changes a cached field
\* of the validator; only the refresh job does.
C10_HandlersLeaveCache ==
    [][HandlerStep => UNCHANGED cacheVars]_vars

\* after a GeneratePayBidTx that failed on the balance, the cache still holds
\* the balance and the nonce
C10_Witness ==
    /\ call.pc = "done"
    /\ call.genErr = ErrInsufficientBalance
    /\ payAccountBalance = Ptr(0)
    /\ payAccountNonce = MaxNonce

(***************************************************************************)
(* Properties of the payment transaction.                                  *)
(***************************************************************************)
\* C11: the transaction GeneratePayBidTx returns (the balance check having
\* passed), once decoded, has the recovered builder address as recipient,
\* the fee as value, the nonce the generator read from the cache, gas price
\* 0 and gas limit 25000, and its signature recovers to the pay account; and
\* the nonce the generator reads is the cached nonce.
C11_PayBidTxFields ==
    /\ [](call.payBidTx # Nil =>
            LET d == UnmarshalBinary(Deref(call.payBidTx))
            IN  /\ d.To = call.builder
                /\ d.Value = Deref(call.fee)
                /\ d.Nonce = Deref(call.tx).Nonce
                /\ d.GasPrice = 0
                /\ d.Gas = 25000
                /\ Sender(d) = PayAccount)
    /\ [][(call.pc = "genNonce" /\ HandlerStep)
            => Deref(call'.tx).Nonce = payAccountNonce]_vars

\* a transaction with a positive value and a positive nonce was returned
C11_Witness ==
    /\ call.payBidTx # Nil
    /\ UnmarshalBinary(Deref(call.payBidTx)).Value > 0
    /\ UnmarshalBinary(Deref(call.payBidTx)).Nonce > 0

(***************************************************************************)
(* Properties of the routing of validator-bound calls.                     *)
(***************************************************************************)
ErrHostnameNotFound ==
    NewInvalidBidError(<<"validator", "hostname", "not", "found">>)

\* C12: a call of sendBid, bestBidGasFee, params or running whose host,
\* with its port cut off, is not a configured validator hostname ends at
\* once with the hostname-not-found error: no upstream call is made, no
\* payment transaction is generated and the handler does not crash.
C12_UnknownHostRejected ==
    [][(/\ call.pc = "idle"
        /\ HandlerStep
        /\ call'.hostname \notin ValidatorHosts)
       => (/\ call'.pc = "done"
           /\ call'.err = ErrHostnameNotFound
           /\ ~call'.panicked
           /\ ~call'.upstream
           /\ call'.sent = Nil
           /\ ~call'.generated
           /\ call'.payBidTx = Nil
           /\ call'.ret = Nil)]_vars

\* a bestBidGasFee call for an unconfigured host was rejected
C12_Witness ==
    /\ call.pc = "done"
    /\ call.method = "mev_bestBidGasFee"
    /\ call.hostname = <<"x">>
    /\ call.err = ErrHostnameNotFound

C14_ForwardOnlyWithPayBidTx ==
    /\ call.sent # Nil =>
        /\ call.method = "mev_sendBid"
        /\ call.generated
        /\ call.genErr = NoErr
        /\ call.payBidTx # Nil
        /\ Deref(call.sent).PayBidTx = call.payBidTx
    /\ (call.genErr # NoErr \/ call.panicked) => call.sent = Nil

\* a bid was forwarded with its payment transaction
C14_Witness ==
    /\ call.sent # Nil
    /\ Deref(call.sent).PayBidTx # Nil
    /\ Deref(call.sent).PayBidTx = call.payBidTx

(***************************************************************************)
(* Properties of the reads of the request path.                            *)
(***************************************************************************)
\* C15: no handler asks the chain for the balance or the nonce; the payment
\* transaction is made from cached values only.
C15_NoChainReadInRequestPath == ~call.chainRead

\* what the reads of the validator's cached state return
CacheReads ==
    [running |-> MevRunning, params |-> MevParams, feeCeil |-> BuilderFeeCeil,
     balance |-> payAccountBalance, nonce |-> payAccountNonce]

C17_NonPositiveCapacityUnlimited ==
    /\ [](max <= 0 => sendq = <<>> /\ \A c \in Callers : cpc[c] # "blocked")
    /\ [][max <= 0 =>
            \A c \in Callers : (cpc[c] = "idle" /\ cpc'[c] # "idle") => cpc'[c] = "next"]_vars

\* with capacity zero all callers execute at the same time
C17_Witness ==
    /\ max = 0
    /\ Executing = Callers

(***************************************************************************)
(* Properties of the per-call deadline.                                    *)
(***************************************************************************)
\* C18: the upstream work of a call is cut off exactly when it takes as long
\* as a positive configured timeout, and is never cut off by the gateway
\* when the timeout is zero or unset.
C18_DeadlineIsConfiguredTimeout ==
    upcall.pc = "done" =>
        (upcall.cancelled <=> (upcall.timeout > 0 /\ upcall.took >= upcall.timeout))

\* C19: when the upstream needs at least as long as the positive configured
\* timeout, the upstream call is given up and the caller gets a
\* deadline-exceeded (timeout) error; the step that gives the call up leaves
\* the refresh job and the cached fields alone, and a further refresh run
\* starts afterwards.
C19_DeadlineCancelsCallNotRefresh ==
    /\ []((/\ upcall.pc = "done"
           /\ upcall.timeout > 0
           /\ upcall.took >= upcall.timeout)
          => (/\ upcall.cancelled
              /\ upcall.err \in {ErrDeadlineExceeded, ErrClientTimeout}))
    /\ [][(upcall'.cancelled /\ ~upcall.cancelled)
            => UNCHANGED <<cacheVars, rpc, err, failed, cycle>>]_vars
    /\ \A k \in 0..2 : (upcall.cancelled /\ cycle = k) ~> (cycle # k)

\* a call was given up at its deadline while a refresh run was under way
C19_Witness ==
    /\ upcall.pc = "done"
    /\ upcall.timeout = 2
    /\ upcall.cancelled
    /\ upcall.err = ErrDeadlineExceeded
    /\ rpc = "balance"

(***************************************************************************)
(* Properties of the classification of upstream errors.                    *)
(***************************************************************************)
ErrSendTimeout == PlainError(<<"timeout", "when", "send", "bid", "to", "validator">>)
\* the upstream errors that are timeouts of the network call
NetworkTimeouts ==
    {PlainError(<<"i/o", "timeout">>), ErrDeadlineExceeded, ErrClientTimeout}

\* C20: when client.SendBid fails with a timeout of the network call,
\* validator.SendBid returns the send-timeout error; when it fails otherwise
\* it returns the error unchanged.
C20_TimeoutsClassified ==
    call.upErr # NoErr =>
        call.err = (IF call.upErr \in NetworkTimeouts THEN ErrSendTimeout ELSE call.upErr)

(***************************************************************************)
(* Properties of the error surface and the meters.                         *)
(***************************************************************************)
\* C21: every error a gateway method returns carries an application error
\* code.
C21_ErrorsCarryCode ==
    (call.pc = "done" /\ call.err # NoErr) => call.err.code # Nil

ErrInvalidSignature == NewInvalidBidError(<<"invalid", "signature">>)

\* C22: a failed sendBid carries the invalid-bid code exactly when the bid
\* failed validation (fee above the ceiling, invalid signature); a routing
\* failure, an insufficient balance and an upstream failure carry another
\* code.
C22_InvalidBidCodeOnlyForValidation ==
    (call.pc = "done" /\ call.method = "mev_sendBid" /\ call.err # NoErr) =>
        (call.err.code = Ptr(InvalidBidParamError)
            <=> call.err \in {ErrFeeCeiling, ErrInvalidSignature})

\* all increments of the error counter made so far
Counted == SumOver(ApiErrorCounter, ErrorLabels)

\* C23: a call that returns an error increments the error counter exactly
\* once, under the call's method and the error's code; a call that succeeds
\* increments none; every call adds one latency observation under its
\* method.
C23_ErrorsCountedOnce ==
    [][(call.pc = "done" /\ call'.pc = "idle") =>
         /\ ApiLatencyHist' = [ApiLatencyHist EXCEPT ![call.method] = @ + 1]
         /\ IF call.err = NoErr
            THEN ApiErrorCounter' = ApiErrorCounter
            ELSE /\ Counted' = Counted + 1
                 /\ call.err.code # Nil =>
                      ApiErrorCounter' =
                        [ApiErrorCounter EXCEPT
                           ![<<call.method, Itoa(Deref(call.err.code))>>] = @ + 1]
       ]_<<call, metricVars>>

(***************************************************************************)
(* Properties of mev_reportIssue.                                          *)
(***************************************************************************)
ErrBuilderNotFound == PlainError(<<"builder", "not", "found">>)

\* C25: a reportIssue call reaches the builder configured under the address
\* inside the issue and no other; when no builder is configured under it
\* the call fails with the builder-not-found error and no builder is
\* contacted.
C25_IssueRoutedByBuilderAddress ==
    (call.pc = "done" /\ call.method = "mev_reportIssue") =>
        IF call.issueBuilder \in BuilderAddrs
        THEN call.upstream /\ call.peer = Ptr(call.issueBuilder)
        ELSE call.err = ErrBuilderNotFound /\ ~call.upstream /\ call.peer = Nil

\* an issue about the second configured builder reached that builder, and
\* the meters have seen an issue about an unconfigured builder before
C25_Witness ==
    /\ call.pc = "done"
    /\ call.method = "mev_reportIssue"
    /\ call.issueBuilder = "b2"
    /\ call.peer = Ptr("b2")
    /\ ApiLatencyHist["mev_reportIssue"] > 0

(***************************************************************************)
(* Properties of the request path beside failing refresh runs.             *)
(***************************************************************************)
\* C24: a failed fetch of the refresh job changes nothing of what the
\* request path answers from (running, params, fee ceiling, balance, nonce):
\* after it they are the last successfully fetched values, as before it.
C24_FailedFetchLeavesReads ==
    [][(\E p \in FetchSteps : Fetched(p) /\ err') => CacheReads' = CacheReads]_<<cacheVars, rpc>>

(***************************************************************************)
(* Properties of zero and missing builder fees.                            *)
(***************************************************************************)
\* C26: a sendBid with a builder fee of zero for a configured validator is
\* not rejected by the fee-ceiling check, whatever the ceiling; with any
\* cached balance of zero or more the generator does not report an
\* insufficient balance, and the payment transaction has value zero and is
\* the one attached to the bid that is forwarded.
C26_ZeroFeeAccepted ==
    (call.method = "mev_sendBid" /\ call.fee = Ptr(0)) =>
        /\ call.err # ErrFeeCeiling
        /\ call.genErr # ErrInsufficientBalance
        /\ call.payBidTx # Nil => UnmarshalBinary(Deref(call.payBidTx)).Value = 0
        /\ call.sent # Nil => Deref(call.sent).PayBidTx = call.payBidTx

\* C27: a sendBid without a builder fee for a configured validator is
\* handled as a fee of zero: the handler does not crash and does not fail
\* for the missing fee, and the payment transaction has value zero.
C27_NilFeeIsZero ==
    (call.method = "mev_sendBid" /\ call.fee = Nil /\ call.hostname \in ValidatorHosts) =>
        /\ ~call.panicked
        /\ call.payBidTx # Nil => UnmarshalBinary(Deref(call.payBidTx)).Value = 0

\* C28: the chain id the payment transaction is signed with is the
\* validator's cached chain id at the time of signing.
C28_SignedWithCachedChainID ==
    [][(call.payBidTx = Nil /\ call'.payBidTx # Nil)
         => UnmarshalBinary(Deref(call'.payBidTx)).V = chainID]_call

(***************************************************************************)
(* Properties of the refresh loop over time.                               *)
(***************************************************************************)
\* C29: a run of refresh() with failed fetches ends like any other, and
\* after every run, failed or not, the scheduler starts a later run, which
\* begins with the first fetch and with no failure recorded.
C29_RefreshLoopSurvivesFailures ==
    /\ (rpc # "idle") ~> (rpc = "idle")
    /\ \A k \in 0..2 : (rpc = "idle" /\ cycle = k) ~> (rpc = "chainID" /\ cycle # k)
    /\ failed ~> (rpc = "chainID" /\ ~failed)

\* every chain-id fetch so far has failed, the second run is under way and
\* its balance fetch has stored a balance
C29_Witness ==
    /\ chainID = Nil
    /\ cycle = 2
    /\ balanceCycle = 2
    /\ payAccountBalance # Nil
    /\ rpc = "nonce"

\* C30: if from some point on every fetch succeeds and returns the same
\* upstream value for its field, then from some point on the cached field is
\* that value: for the chain id, the liveness flag, the balance, the nonce
\* and the auction parameters.
C30_EventuallyConsistent ==
    /\ \A v \in ChainIDs :
          <>[][Fetched("chainID") => (~err' /\ fetched' = Ptr(v))]_rpc
             => <>[](chainID = Ptr(v))
    /\ \A v \in BOOLEAN :
          <>[][Fetched("mevRunning") => (~err' /\ fetched' = v)]_rpc
             => <>[]((mevRunning = 1) = v)
    /\ \A v \in Balances :
          <>[][Fetched("balance") => (~err' /\ fetched' = Ptr(v))]_rpc
             => <>[](payAccountBalance = Ptr(v))
    /\ \A v \in Nonces :
          <>[][Fetched("nonce") => (~err' /\ fetched' = v)]_rpc
             => <>[](payAccountNonce = v)
    /\ \A v \in MevParamsValues :
          <>[][Fetched("params") => (~err' /\ fetched' = Ptr(v))]_rpc
             => <>[](mevParams = Ptr(v))

\* the second run has replaced the balance the first run stored by the
\* balance it fetched
C30_Witness ==
    /\ cycle = 2
    /\ balanceCycle = 2
    /\ rpc = "nonce"
    /\ ~err
    /\ payAccountBalance = Ptr(MaxBalance)
    /\ payAccountBalance = fetched

(***************************************************************************)
(* Properties of the start of the process.                                 *)
(***************************************************************************)
\* validators whose construction came to a failed keystore unlock
UnlockFailed(config) == config.dialOk /\ config.Mode = "keystore" /\ ~config.unlockOk
\* validators whose construction fails on the dial or on the account mode
DialOrModeFailed(config) == ~config.dialOk \/ config.Mode = "other"

\* C31: the process stops during construction only at a validator whose
\* keystore unlock failed; a validator with a failed dial or a bad account
\* mode is left out of the routing table and construction goes on.
C31_OnlyUnlockFailureIsFatal ==
    /\ boot.pc = "crashed" => UnlockFailed(boot.cfgs[boot.i])
    /\ \A j \in 1..(boot.i - 1) :
          DialOrModeFailed(boot.cfgs[j]) => j \notin boot.validators

(***************************************************************************)
(* Properties of the order of the steps of sendBid.                        *)
(***************************************************************************)
\* C32: sendBid looks the validator up, then recovers the builder from the
\* signature, then checks the fee against the ceiling, and stops at the
\* first step that fails: a bid for a configured validator whose signature
\* is invalid fails with the invalid-signature error, whatever its fee.
C32_SignatureCheckedBeforeFee ==
    (/\ call.pc = "done"
     /\ call.method = "mev_sendBid"
     /\ call.hostname \in ValidatorHosts
     /\ call.fee # Nil
     /\ call.sig \notin Builders)
        => call.err = ErrInvalidSignature

(***************************************************************************)
(* Properties of sendBid calls that run at the same time.                  *)
(***************************************************************************)
\* C33: the generator never changes the cached nonce, and the payment
\* transactions of any two sendBid calls made while no refresh run writes
\* the cache carry the same nonce, the cached one, also when the calls run
\* at the same time.
C33_NoNonceReservation ==
    /\ [][payAccountNonce' = payAccountNonce]_vars
    /\ [](\A g \in Pair, h \in Pair :
            (calls[g].tx # Nil /\ calls[h].tx # Nil)
                => Deref(calls[g].tx).Nonce = Deref(calls[h].tx).Nonce)
    /\ [](\A g \in Pair :
            calls[g].payBidTx # Nil
                => UnmarshalBinary(Deref(calls[g].payBidTx)).Nonce = payAccountNonce)

\* both calls are inside the generator at the same time, each with its
\* transaction built, for different fees
C33_Witness ==
    /\ calls[1].pc = "genSign"
    /\ calls[2].pc = "genSign"
    /\ calls[1].fee # calls[2].fee
    /\ Deref(calls[1].tx).Nonce = Deref(calls[2].tx).Nonce

(***************************************************************************)
(* Properties of runs of refresh() side by side.                           *)
(***************************************************************************)
\* the j-th run has started and not returned
Running_(j) == jobs[j].pc \notin {"waiting", "idle"}

\* C34: runs of refresh() do not overlap: a run starts only when the run
\* before has made all its fetches; and a balance or nonce stored by a later
\* run is never overwritten by an earlier run.
C34_RefreshRunsDoNotOverlap ==
    /\ [](\A i \in Runs, j \in Runs : (Running_(i) /\ Running_(j)) => i = j)
    /\ [][balanceCycle' >= balanceCycle /\ nonceCycle' >= nonceCycle]_<<balanceCycle, nonceCycle>>

(***************************************************************************)
(* Properties of the generator before the first successful fetches.        *)
(***************************************************************************)
\* C35: a call that has entered GeneratePayBidTx ends with an error or with
\* a transaction, also while no balance and no chain id has been stored yet;
\* the handler does not crash in the generator.
C35_GeneratorNeverCrashes ==
    call.generated => ~call.panicked

(***************************************************************************)
(* Properties of the limiter's slots.                                      *)
(***************************************************************************)
\* C36: with a positive capacity the number of tokens in the channel is the
\* number of calls between their completed send and their deferred receive;
\* a call gives its slot up when its handler has returned and when it has
\* panicked; with no call in flight the channel is empty.
C36_SlotsMatchCallsInFlight ==
    /\ [](Limited => lc = Cardinality(Admitted))
    /\ []((Admitted = {} /\ sendq = <<>>) => lc = 0)
    /\ [][\A c \in Callers :
            (cpc[c] = "deferred" /\ cpc'[c] = "done" /\ Limited) =>
                \/ lc' = lc - 1
                \/ lc' = lc /\ \E d \in Callers : cpc[d] = "blocked" /\ cpc'[d] = "next"]_vars

\* a call whose handler panicked has given its slot up and no call is in
\* flight
C36_Witness ==
    /\ Limited
    /\ \E c \in Callers : cpc[c] = "done" /\ panicking[c]
    /\ Admitted = {}
    /\ lc = 0

(***************************************************************************)
(* Properties of the liveness flag.                                        *)
(***************************************************************************)
\* C37: the liveness flag is set exactly when the latest liveness fetch
\* succeeded and returned true: it is clear before the first run, every
\* liveness fetch sets it if the fetch succeeded with true and clears it
\* otherwise, nothing else writes it, and running answers with it.
C37_RunningIsLatestLivenessFetch ==
    /\ [](cycle = 0 => mevRunning = 0)
    /\ [][Fetched("mevRunning") => ((mevRunning' = 1) <=> (~err' /\ fetched' = TRUE))]_vars
    /\ [][Fetched("mevRunning") \/ mevRunning' = mevRunning]_vars
    /\ [][(call.pc = "idle" /\ call'.method = "mev_running" /\ call'.err = NoErr)
            => call'.ret = Ptr(mevRunning = 1)]_vars

\* running answered false during the second run, whose liveness fetch has
\* just failed
C37_Witness ==
    /\ call.pc = "done"
    /\ call.method = "mev_running"
    /\ call.ret = Ptr(FALSE)
    /\ cycle = 2
    /\ rpc = "balance"
    /\ err

C39_CeilingComparisonExact ==
    [][(/\ call.pc = "idle"
        /\ call'.method = "mev_sendBid"
        /\ call'.hostname \in ValidatorHosts
        /\ call'.fee # Nil)
       => (call'.err = ErrFeeCeiling <=> Deref(call'.fee) > BuilderFeeCeil)]_vars

=============================================================================
